---- MODULE Spec2Model ----
(***************************************************************************)
(* FoxEngine, game/src/EntryPoint.cpp: the frame loop of Engine::Start as  *)
(* a state machine.  One action per step of the loop body, in the order of *)
(* the source; the GL objects and the GL state the loop touches are the    *)
(* variables.  Values read from the window system and the UI (viewport     *)
(* size, frame delta, clicks) are inputs drawn from the sets of an         *)
(* environment record, so that a specification can range over the inputs   *)
(* of the part of the loop it is about.                                    *)
(***************************************************************************)
EXTENDS Integers, Sequences, FiniteSets, TLC

VARIABLES
    pc,           \* the step of Engine::Start about to run
    mRunning,     \* Engine::mRunning
    showViewport, \* bool showViewport
    panelOpen,    \* what ImGui::Begin("Viewport") returned in this frame
    size,         \* ImVec2 size read by GetContentRegionAvail (fixed point), NoSize if not read
    vpw, vph,     \* int vpw, vph
    fbo,          \* unsigned int fbo
    fboTex, fboTexBlack, fboDep,  \* the Poly<> attachments: <<>> or <<width, height>>
    iconFbo,      \* unsigned int iconFbo
    fb,           \* the GL framebuffer objects, by name
    boundFbo, boundTex, boundShader,   \* GL bindings
    cullFace, depthTest, blend, depthMask, blendFunc,  \* GL capabilities, glBlendFunc
    deltaTime, timer,   \* double deltaTime, static double timer (ticks)
    win,          \* int w, h read by glfwGetFramebufferSize, NoSize if not read
    listener,     \* Engine::OnClose is connected to the dispatcher
    uiBackend,    \* the ImGui context and its backends exist
    ents,         \* the registry: a sequence of entities
    selected,     \* static entt::entity selected (0 is entt::null)
    idx,          \* position of a pass in the registry view
    edits,        \* number of registry edits made through the editor so far
    drawn,        \* the draw calls issued in the current frame
    ops,          \* GL object creations and deletions of the current frame
    pre,          \* the main render target as it was when the frame began
    sameReq,      \* this frame's size equals the size the previous frame read
    wall,         \* wall time since the icon pass last fired (ticks, capped)
    total,        \* wall time since the loop began (ticks, capped)
    fires,        \* firings of the icon pass within the counting window
    samples,      \* static int samples, the "Radial iterations" control
    sunCoordCenter, \* glm::vec2 sunCoordCenter, in clip space
    sh,           \* one run of the radial blur fragment shader's main
    rm,           \* a ResourceManager and the holders of its assets
    wd            \* one call of RedirectWorkingDirectory

vars == <<pc, mRunning, showViewport, panelOpen, size, vpw, vph, fbo, fboTex,
          fboTexBlack, fboDep, iconFbo, fb, boundFbo, boundTex, boundShader,
          cullFace, depthTest, blend, depthMask, blendFunc, deltaTime, timer, ents,
          selected, idx, edits, drawn, ops, pre, sameReq, win, listener,
          uiBackend, wall, total, fires, samples, sunCoordCenter, sh, rm, wd>>

(***************************************************************************)
(* Bounds.                                                                 *)
(***************************************************************************)
\* ImVec2 components are floats: a size component is k / Denom pixels.
Denom == 2
\* largest numerator of a size component
MaxSize == 4
\* GL framebuffer names are 1..MaxName
MaxName == 3
\* entities the registry can hold
MaxEntities == 3
\* registry edits the editor performs in one run
MaxEdits == 3
\* largest frame delta, in ticks
MaxDelta == 6
\* the jitter of a fragment is j / JitterDenom, j in 0..JitterDenom-1
JitterDenom == 2
\* texel values are 0..MaxTexel
MaxTexel == 2
\* resource names per asset kind
MaxResNames == 2
\* components per asset kind that hold a handle
MaxSlots == 2
\* loads the resource manager performs in one run
MaxLoads == 4
\* deepest starting directory below the root (the root is depth 0)
MaxDepth == 4

\* one tick is 1/40 s, so that 1/8 s is a whole number of ticks
TicksPerSecond == 8 * 5

SizeVals == 0..MaxSize
Names == 1..MaxName
DeltaVals == 1..MaxDelta
NoSize == <<>>
NoTex == <<>>
\* a part of the program that is not running
NoRun == <<>>
\* glm::vec2 sunCoordCenter{};
NoCenter == <<0, 0>>
\* static int samples = 20;
DefaultSamples == 20
\* ImGui::DragInt("Radial iterations", &samples, .1f, 0, 128): the ends of
\* the range, the default, the count the shader uses and a value in between
SampleVals == {0, 1, DefaultSamples, 40, 128}
\* clip-space x and y of the sun after the perspective divide: -1, 0 or 1
CenterVals == {<<x, y>> : x \in {-1, 0, 1}, y \in {-1, 0, 1}}

(***************************************************************************)
(* Program constants.                                                      *)
(***************************************************************************)
\* int size = 64;  the icon target's edge
IconSize == 64
\* if (timer > 1.0 / 8.0)
IconPeriod == TicksPerSecond \div 8
\* mutant: the pass fires from half the period on
CadenceElapsedEarly(t) == 2 * t > IconPeriod
\* if (timer > 1.0 / 8.0)
CadenceElapsed(t) == t > IconPeriod
\* timer = 0.0;
TimerAfterFiring(t) == 0
\* mutant: one non-zero component is enough
WindowHasAreaAny(w, h) == w # 0 \/ h # 0
\* if (w != 0 && h != 0)
WindowHasArea(w, h) == w # 0 /\ h # 0
IconTag == "__icon"
DefaultTag == "default"
Tags == {DefaultTag, IconTag}

(***************************************************************************)
(* Conversions and tests of the viewport resize block.                     *)
(***************************************************************************)
\* static_cast<int>(size.x): the fraction is dropped, toward zero
ToInt(x) == IF x >= 0 THEN x \div Denom ELSE -((-x) \div Denom)

\* mutant: the guard passes when either component is non-zero
NonZeroSizeAny(s) == s[1] # 0 \/ s[2] # 0
\* mutant: the guard tests the width only
NonZeroSizeWidth(s) == s[1] # 0
\* if (size.x != 0 && size.y != 0)
NonZeroSize(s) == s[1] # 0 /\ s[2] # 0

\* mutant: only the width is compared
SizeChangedWidthOnly(w, h, s) == w * Denom # s[1]
\* if (vpw != size.x || vph != size.y): the ints are converted to float
SizeChanged(w, h, s) == w * Denom # s[1] \/ h * Denom # s[2]

\* mutant: the attachments are created one pixel short
AttachmentDimsShort(w, h) == <<w, IF h > 0 THEN h - 1 ELSE h>>
\* .width = vpw, .height = vph of the three Create calls
AttachmentDims(w, h) == <<w, h>>

(***************************************************************************)
(* GL framebuffer objects.                                                 *)
(***************************************************************************)
FreeFb == [alive |-> FALSE, c0 |-> NoTex, c1 |-> NoTex, dep |-> NoTex, bufs |-> {}]
\* a name fresh from glGenFramebuffers, once bound: attachment 0 is the draw buffer
NewFb == [alive |-> TRUE, c0 |-> NoTex, c1 |-> NoTex, dep |-> NoTex, bufs |-> {0}]
FreeNames == {n \in Names : ~fb[n].alive}

\* the main render target: handle, attachments and recorded size
Target ==
    [fbo |-> fbo,
     obj |-> IF fbo \in Names THEN fb[fbo] ELSE FreeFb,
     tex |-> <<fboTex, fboTexBlack, fboDep>>,
     vp  |-> <<vpw, vph>>]

ZeroOps == [delFb |-> 0, genFb |-> 0, tex |-> 0, rb |-> 0]

\* mutant: the scene pass binds the handle the frame began with
SceneTargetAtFrameStart == pre.fbo
\* glBindFramebuffer(GL_FRAMEBUFFER, fbo) of the scene pass
SceneTarget == fbo

\* mutant: the new framebuffer draws into attachment 0 only
SceneDrawBuffersPrimary == {0}
\* unsigned int bufs[] = { GL_COLOR_ATTACHMENT0, GL_COLOR_ATTACHMENT1 }; glDrawBuffers(2, bufs);
SceneDrawBuffers == {0, 1}
\* unsigned int bufs[] = { GL_COLOR_ATTACHMENT0 }; glDrawBuffers(1, bufs);  of the blur
BlurDrawBuffers == {0}

\* the blend function of a context on which glBlendFunc was never called
DefaultBlendFunc == <<"ONE", "ZERO">>
\* mutant: the blur is alpha blended
BlurBlendFuncAlpha == <<"SRC_ALPHA", "ONE_MINUS_SRC_ALPHA">>
\* glBlendFunc(GL_ONE, GL_ONE);
BlurBlendFunc == <<"ONE", "ONE">>

(***************************************************************************)
(* The registry.                                                           *)
(***************************************************************************)
\* an entity: TransformComponent.tag, MeshFilterComponent, MeshRendererComponent
Entity(tag, filter, mesh, renderer, shader, texture) ==
    [tag |-> tag, filter |-> filter, mesh |-> mesh,
     renderer |-> renderer, shader |-> shader, texture |-> texture]

\* entity.emplace<TransformComponent>() of "Create entity"
NewEntity == Entity(DefaultTag, FALSE, "null", FALSE, "null", "null")

\* mRegistry.view<TransformComponent, MeshFilterComponent, MeshRendererComponent>()
View ==
    SelectSeq([i \in 1..Len(ents) |-> i],
              LAMBDA i : ents[i].filter /\ ents[i].renderer)

HasNull(e) == e.mesh = "null" \/ e.shader = "null" \/ e.texture = "null"

\* the four continue statements of the scene pass loop
SceneSkips(e) ==
    e.texture = "null" \/ e.shader = "null" \/ e.mesh = "null" \/ e.tag = IconTag

\* mutant: the icon pass takes every entity
IconSkipsNone(e) == FALSE
\* if (transform.tag != "__icon") continue;
IconSkips(e) == e.tag # IconTag

\* bool cullsBackFaces = meshRenderer.shader->CullsBackFaces();
CullsBackFaces(e) == e.shader = "cull"

\* if (!cullsBackFaces) glDisable(GL_CULL_FACE);
CullDuringDraw(culls, cur) == IF culls THEN cur ELSE FALSE
\* mutant: culling is not enabled again after the draw
CullAfterDrawNotRestored(culls, cur) == IF culls THEN cur ELSE FALSE
\* if (!cullsBackFaces) glEnable(GL_CULL_FACE);
CullAfterDraw(culls, cur) == IF culls THEN cur ELSE TRUE

\* mutant: the UI is rendered into whatever framebuffer is bound
LastFramebuffer == boundFbo
\* glBindFramebuffer(GL_FRAMEBUFFER, 0);
DefaultFramebuffer == 0

\* the radial blur shader declares uResolution, uTime and uChannel0 only: its
\* loop runs float iterations = 40.0 times, whatever uIterations was set to
ShaderIterations(uIterations) == 40
\* vec2 center = vec2(0.5, 0.5), in halves of the texture, whatever uCenter was set to
ShaderCenter(uCenter) == <<1, 1>>
\* sunCoordCenter.x * 0.5f + 0.5f, sunCoordCenter.y * 0.5f + 0.5f, in halves
RemapCenter(c) == <<c[1] + 1, c[2] + 1>>
\* the Uniform2f and Uniform1f calls of the blur pass
BlurUniforms ==
    [uResolution |-> <<vpw, vph>>, uCenter |-> RemapCenter(sunCoordCenter),
     uIterations |-> samples]

\* a draw call, with the GL state it is issued under; nulls is history kept
\* with the clear of a scene pass: the entities of the view that have a null
\* mesh, shader or texture when the pass starts
Draw(what, pass, e) ==
    [what |-> what, pass |-> pass, e |-> e,
     tag |-> IF e = 0 THEN "" ELSE ents[e].tag,
     res |-> IF e = 0 THEN <<"ok", "ok", "ok">>
             ELSE <<ents[e].mesh, ents[e].shader, ents[e].texture>>,
     fbo |-> boundFbo,
     live |-> boundFbo = 0 \/ (boundFbo \in Names /\ fb[boundFbo].alive),
     bufs |-> IF boundFbo \in Names THEN fb[boundFbo].bufs ELSE {},
     tex |-> boundTex,
     cull |-> cullFace, depthTest |-> depthTest, blend |-> blend,
     blendFunc |-> blendFunc, depthMask |-> depthMask,
     seq |-> Cardinality(drawn), gen |-> ops.genFb,
     uni |-> NoRun, taken |-> 0, toward |-> NoCenter, nulls |-> {}]

(***************************************************************************)
(* Outcomes of the asset providers.                                        *)
(***************************************************************************)
\* load_mesh returns nullptr or a mesh; for a file whose first mesh has no
\* texture coordinates it reads through the null mTextureCoords[0], which is
\* undefined
MeshLoadResults == {"null", "ok", "undefined"}
\* the handle load_mesh leaves when the undefined read goes through: a mesh
\* built from whatever was read
LoadedMesh(m) == IF m = "undefined" THEN "ok" ELSE m
\* Shader::Create(...).MakeUnique(): an empty handle, or a shader that culls or not
ShaderLoadResults == {"null", "cull", "nocull"}
\* Texture::Create(path).MakeUnique(): an empty handle or a texture
TextureLoadResults == {"null", "ok"}

(***************************************************************************)
(* Environments: the inputs a run draws from.                              *)
(*   sizes      values of a component of GetContentRegionAvail()           *)
(*   panel      return values of ImGui::Begin("Viewport")                  *)
(*   toggle     whether View > Viewport or the panel's close button is hit *)
(*   allocFail  whether the creation of an attachment can fail             *)
(*   close      whether the window's close callback can fire               *)
(*   quit       whether File > Quit can be chosen                          *)
(*   deltas     frame deltas, in ticks                                     *)
(*   minimised  whether glfwGetFramebufferSize can report a zero size      *)
(*   maxEdits   registry edits made through the editor                     *)
(*   mesh, shader, texture   outcomes of the loads                         *)
(*   names      names glGenFramebuffers can return                         *)
(*   horizon    length of the window in which firings are counted (ticks)  *)
(*   samples    values the "Radial iterations" control can be dragged to   *)
(*   centers    clip-space positions of the sun                            *)
(***************************************************************************)
EnvAll ==
    [sizes |-> SizeVals, panel |-> BOOLEAN, toggle |-> BOOLEAN,
     allocFail |-> BOOLEAN, close |-> BOOLEAN, quit |-> BOOLEAN,
     deltas |-> DeltaVals, minimised |-> BOOLEAN, maxEdits |-> MaxEdits,
     mesh |-> MeshLoadResults, shader |-> ShaderLoadResults,
     texture |-> TextureLoadResults, names |-> Names, horizon |-> 0,
     samples |-> SampleVals, centers |-> CenterVals]

(***************************************************************************)
(* Engine::Start up to the loop.                                           *)
(***************************************************************************)
StartEnv(env) ==
    /\ mRunning = TRUE
    /\ showViewport = TRUE
    /\ panelOpen = FALSE
    /\ size = NoSize
    /\ vpw = 0 /\ vph = 0
    /\ fbo = 0
    /\ fboTex = NoTex /\ fboTexBlack = NoTex /\ fboDep = NoTex
    /\ iconFbo \in env.names
    /\ fb = [n \in Names |->
                IF n = iconFbo
                THEN [NewFb EXCEPT !.c0 = <<IconSize, IconSize>>,
                                   !.dep = <<IconSize, IconSize>>]
                ELSE FreeFb]
    /\ boundFbo = iconFbo
    /\ boundTex = "none"
    /\ boundShader = "none"
    /\ cullFace = TRUE /\ depthTest = TRUE /\ blend = FALSE /\ depthMask = TRUE
    /\ blendFunc = DefaultBlendFunc
    /\ win = NoSize
    /\ listener = TRUE
    /\ uiBackend = TRUE
    /\ wall = 0 /\ total = 0 /\ fires = 0
    /\ samples = DefaultSamples
    /\ sunCoordCenter = NoCenter
    /\ deltaTime = TicksPerSecond
    /\ timer = 0
    /\ \E m1 \in env.mesh, m2 \in env.mesh, s1 \in env.shader, t2 \in env.texture :
         \E s2 \in (IF s1 = "null" THEN env.shader ELSE {s1}) :
            /\ ents = << Entity(DefaultTag, TRUE, LoadedMesh(m1), TRUE, s1, "ok"),
                         Entity(IconTag, TRUE, LoadedMesh(m2), TRUE, s2, t2) >>
            /\ pc \in (IF "undefined" \in {m1, m2}
                       THEN {"PollInput", "CrashedLoading"} ELSE {"PollInput"})
    /\ selected = 0
    /\ idx = 0
    /\ edits = 0
    /\ drawn = {}
    /\ ops = ZeroOps
    /\ pre = [fbo |-> 0, obj |-> FreeFb, tex |-> <<NoTex, NoTex, NoTex>>, vp |-> <<0, 0>>]
    /\ sameReq = FALSE

\* the engine at the head of its loop; no fragment, cache request or
\* directory search is being followed
InitEnv(env) ==
    /\ StartEnv(env)
    /\ sh = NoRun /\ rm = NoRun /\ wd = NoRun

engineVars == <<pc, mRunning, showViewport, panelOpen, size, vpw, vph, fbo,
                fboTex, fboTexBlack, fboDep, iconFbo, fb, boundFbo, boundTex,
                boundShader, cullFace, depthTest, blend, depthMask, blendFunc,
                deltaTime, timer, ents, selected, idx, edits, drawn, ops, pre,
                sameReq, win, listener, uiBackend, wall, total, fires, samples,
                sunCoordCenter>>
targetVars == <<vpw, vph, fbo, fboTex, fboTexBlack, fboDep, iconFbo, fb>>
glVars == <<boundFbo, boundTex, boundShader, cullFace, depthTest, blend, depthMask, blendFunc>>
uiVars == <<showViewport, panelOpen, size, sameReq>>
timeVars == <<deltaTime, timer, win, wall, total, fires>>
hostVars == <<listener, uiBackend>>
blurVars == <<samples, sunCoordCenter>>
subVars == <<sh, rm, wd>>
entVars == <<ents, selected, edits>>
ghostVars == <<drawn, ops, pre>>

(***************************************************************************)
(* The order of the straight-line steps of the loop body.                  *)
(***************************************************************************)
\* mutant: the blur is issued before the sun is drawn
StepAfterBlurFirst(p) ==
    CASE p = "PollInput"      -> "UpdateCamera"
      [] p = "UpdateCamera"   -> "BeginUI"
      [] p = "BeginUI"        -> "ViewportPanel"
      [] p = "ScenePass"      -> "BlurPass"
      [] p = "BlurPass"       -> "GlarePass"
      [] p = "GlarePass"      -> "PresentToUI"
      [] p = "PresentToUI"    -> "EditorUI"
      [] p = "EditorUI"       -> "IconGate"
      [] p = "IconPass"       -> "IconReadback"
      [] p = "IconReadback"   -> "RenderUI"
      [] p = "RenderUI"       -> "Present"
      [] p = "Shutdown"       -> "Exited"
\* the step that follows step p when p falls through
StepAfter(p) ==
    CASE p = "PollInput"      -> "UpdateCamera"
      [] p = "UpdateCamera"   -> "BeginUI"
      [] p = "BeginUI"        -> "ViewportPanel"
      [] p = "ScenePass"      -> "GlarePass"
      [] p = "GlarePass"      -> "BlurPass"
      [] p = "BlurPass"       -> "PresentToUI"
      [] p = "PresentToUI"    -> "EditorUI"
      [] p = "EditorUI"       -> "IconGate"
      [] p = "IconPass"       -> "IconReadback"
      [] p = "IconReadback"   -> "RenderUI"
      [] p = "RenderUI"       -> "Present"
      [] p = "Shutdown"       -> "Exited"

(***************************************************************************)
(* The loop body, up to the viewport panel.                                *)
(***************************************************************************)
\* FoxEngine::Window::PollEvents(); mDispatcher.update(); deltaTime = ...
PollInput(env) ==
    /\ pc = "PollInput"
    /\ \E close \in env.close : mRunning' = (mRunning /\ ~(close /\ listener))
    /\ \E d \in env.deltas :
         /\ deltaTime' = d
         /\ wall' = IF wall + d > IconPeriod THEN IconPeriod + 1 ELSE wall + d
         /\ total' = IF total + d > env.horizon THEN env.horizon + 1 ELSE total + d
    /\ drawn' = {}
    /\ ops' = ZeroOps
    /\ pre' = Target
    /\ pc' = StepAfter("PollInput")
    /\ UNCHANGED <<hostVars, subVars, blurVars, targetVars, glVars, uiVars, timer, win, fires, entVars, idx>>

\* the mouse look and WASD block: moves cameraTransform only
UpdateCamera ==
    /\ pc = "UpdateCamera"
    /\ pc' = StepAfter("UpdateCamera")
    /\ UNCHANGED <<mRunning, hostVars, subVars, blurVars, targetVars, glVars, uiVars, timeVars, entVars, idx, ghostVars>>

\* ImGui NewFrame, the main menu bar (Quit, View > Viewport), the Lighting panel
BeginUI(env) ==
    /\ pc = "BeginUI"
    /\ \E quit \in env.quit : mRunning' = (mRunning /\ ~quit)
    /\ \E t \in env.toggle : showViewport' = IF t THEN ~showViewport ELSE showViewport
    /\ \E v \in env.samples \cup {samples} : samples' = v
    /\ pc' = StepAfter("BeginUI")
    /\ UNCHANGED <<hostVars, subVars, sunCoordCenter, targetVars, glVars, panelOpen, size, sameReq, timeVars,
                   entVars, idx, ghostVars>>

\* if (showViewport) { if (ImGui::Begin("Viewport", &showViewport)) { size = ...; if (size.x != 0 && size.y != 0)
ViewportPanel(env) ==
    /\ pc = "ViewportPanel"
    /\ IF ~showViewport
       THEN /\ panelOpen' = FALSE
            /\ size' = NoSize
            /\ sameReq' = FALSE
            /\ pc' = "EditorUI"
            /\ UNCHANGED showViewport
       ELSE \E open \in env.panel, x \in env.toggle :
              /\ panelOpen' = open
              /\ showViewport' = ~x
              /\ IF ~open
                 THEN /\ size' = NoSize
                      /\ sameReq' = FALSE
                      /\ pc' = "EditorUI"
                 ELSE \E sx \in env.sizes, sy \in env.sizes :
                        /\ size' = <<sx, sy>>
                        /\ sameReq' = (size = <<sx, sy>>)
                        /\ pc' = IF NonZeroSize(<<sx, sy>>)
                                 THEN "ResizeIfNeeded" ELSE "EditorUI"
    /\ UNCHANGED <<mRunning, hostVars, subVars, blurVars, targetVars, glVars, timeVars, entVars, idx, ghostVars>>

(***************************************************************************)
(* The viewport resize block.                                              *)
(***************************************************************************)
\* if (vpw != size.x || vph != size.y) { vpw = ...; vph = ...; if (fbo) glDeleteFramebuffers(1, &fbo);
ResizeIfNeeded ==
    /\ pc = "ResizeIfNeeded"
    /\ IF SizeChanged(vpw, vph, size)
       THEN /\ vpw' = ToInt(size[1])
            /\ vph' = ToInt(size[2])
            /\ IF fbo # 0
               THEN /\ fb' = [fb EXCEPT ![fbo] = FreeFb]
                    /\ boundFbo' = IF boundFbo = fbo THEN 0 ELSE boundFbo
                    /\ ops' = [ops EXCEPT !.delFb = @ + 1]
               ELSE UNCHANGED <<fb, boundFbo, ops>>
            /\ pc' = "CreateColor0"
       ELSE /\ pc' = "ScenePass"
            /\ UNCHANGED <<vpw, vph, fb, boundFbo, ops>>
    /\ UNCHANGED <<mRunning, hostVars, subVars, blurVars, fbo, fboTex, fboTexBlack, fboDep, iconFbo, boundTex,
                   boundShader, cullFace, depthTest, blend, depthMask, blendFunc, uiVars,
                   timeVars, entVars, idx, drawn, pre>>

\* fboTex = FoxEngine::Texture::Create({.width = vpw, .height = vph, ...})
CreateColor0(env) ==
    /\ pc = "CreateColor0"
    /\ \E fail \in env.allocFail :
         IF fail
         THEN /\ pc' = "AllocFailed"
              /\ UNCHANGED <<fboTex, ops>>
         ELSE /\ fboTex' = AttachmentDims(vpw, vph)
              /\ ops' = [ops EXCEPT !.tex = @ + 1]
              /\ pc' = "CreateColor1"
    /\ UNCHANGED <<mRunning, hostVars, subVars, blurVars, vpw, vph, fbo, fboTexBlack, fboDep, iconFbo, fb, glVars,
                   uiVars, timeVars, entVars, idx, drawn, pre>>

\* fboTexBlack = FoxEngine::Texture::Create({.width = vpw, .height = vph, ...})
CreateColor1(env) ==
    /\ pc = "CreateColor1"
    /\ \E fail \in env.allocFail :
         IF fail
         THEN /\ pc' = "AllocFailed"
              /\ UNCHANGED <<fboTexBlack, ops>>
         ELSE /\ fboTexBlack' = AttachmentDims(vpw, vph)
              /\ ops' = [ops EXCEPT !.tex = @ + 1]
              /\ pc' = "CreateDepth"
    /\ UNCHANGED <<mRunning, hostVars, subVars, blurVars, vpw, vph, fbo, fboTex, fboDep, iconFbo, fb, glVars,
                   uiVars, timeVars, entVars, idx, drawn, pre>>

\* fboDep = FoxEngine::Renderbuffer::Create({.width = vpw, .height = vph, ...})
CreateDepth(env) ==
    /\ pc = "CreateDepth"
    /\ \E fail \in env.allocFail :
         IF fail
         THEN /\ pc' = "AllocFailed"
              /\ UNCHANGED <<fboDep, ops>>
         ELSE /\ fboDep' = AttachmentDims(vpw, vph)
              /\ ops' = [ops EXCEPT !.rb = @ + 1]
              /\ pc' = "GenFramebuffer"
    /\ UNCHANGED <<mRunning, hostVars, subVars, blurVars, vpw, vph, fbo, fboTex, fboTexBlack, iconFbo, fb, glVars,
                   uiVars, timeVars, entVars, idx, drawn, pre>>

\* glGenFramebuffers(1, &fbo); glBindFramebuffer(GL_FRAMEBUFFER, fbo);
GenFramebuffer(env) ==
    /\ pc = "GenFramebuffer"
    /\ \E n \in FreeNames \cap env.names :
         /\ fbo' = n
         /\ fb' = [fb EXCEPT ![n] = NewFb]
         /\ boundFbo' = n
    /\ ops' = [ops EXCEPT !.genFb = @ + 1]
    /\ pc' = "Attach"
    /\ UNCHANGED <<mRunning, hostVars, subVars, blurVars, vpw, vph, fboTex, fboTexBlack, fboDep, iconFbo, boundTex,
                   boundShader, cullFace, depthTest, blend, depthMask, blendFunc, uiVars,
                   timeVars, entVars, idx, drawn, pre>>

\* glFramebufferTexture2D x 2, glFramebufferRenderbuffer: on the bound framebuffer
Attach ==
    /\ pc = "Attach"
    /\ fb' = [fb EXCEPT ![boundFbo] =
                 [@ EXCEPT !.c0 = fboTex, !.c1 = fboTexBlack, !.dep = fboDep]]
    /\ pc' = "SetDrawBuffers"
    /\ UNCHANGED <<mRunning, hostVars, subVars, blurVars, vpw, vph, fbo, fboTex, fboTexBlack, fboDep, iconFbo,
                   glVars, uiVars, timeVars, entVars, idx, ghostVars>>

\* glDrawBuffers(2, {GL_COLOR_ATTACHMENT0, GL_COLOR_ATTACHMENT1})
SetDrawBuffers ==
    /\ pc = "SetDrawBuffers"
    /\ fb' = [fb EXCEPT ![boundFbo] = [@ EXCEPT !.bufs = SceneDrawBuffers]]
    /\ pc' = "ScenePass"
    /\ UNCHANGED <<mRunning, hostVars, subVars, blurVars, vpw, vph, fbo, fboTex, fboTexBlack, fboDep, iconFbo,
                   glVars, uiVars, timeVars, entVars, idx, ghostVars>>

(***************************************************************************)
(* Scene, glare and blur passes.                                           *)
(***************************************************************************)
\* glBindFramebuffer(GL_FRAMEBUFFER, fbo); glViewport; glClear; view = mRegistry.view<...>()
ScenePass ==
    /\ pc = "ScenePass"
    /\ boundFbo' = SceneTarget
    /\ drawn' = drawn \cup
         {[Draw("clear", "clear", 0) EXCEPT
              !.fbo = SceneTarget,
              !.live = SceneTarget = 0 \/ (SceneTarget \in Names /\ fb[SceneTarget].alive),
              !.bufs = IF SceneTarget \in Names THEN fb[SceneTarget].bufs ELSE {},
              !.nulls = {View[i] : i \in {k \in 1..Len(View) :
                                             HasNull(ents[View[k]])}}]}
    /\ idx' = 1
    /\ pc' = IF Len(View) = 0 THEN StepAfter("ScenePass") ELSE "SceneEntity"
    /\ UNCHANGED <<mRunning, hostVars, subVars, blurVars, targetVars, boundTex, boundShader, cullFace, depthTest,
                   blend, depthMask, blendFunc, uiVars, timeVars, entVars, ops, pre>>

\* one iteration of for (auto entity : view) of the scene pass
SceneEntity ==
    /\ pc = "SceneEntity"
    /\ LET e == View[idx] IN
         IF SceneSkips(ents[e])
         THEN UNCHANGED <<boundShader, boundTex, cullFace, drawn>>
         ELSE /\ boundShader' = "entity"
              /\ boundTex' = "entity"
              /\ drawn' = drawn \cup
                   {[Draw("mesh", "scene", e) EXCEPT
                        !.tex = "entity",
                        !.cull = CullDuringDraw(CullsBackFaces(ents[e]), cullFace)]}
              /\ cullFace' = CullAfterDraw(CullsBackFaces(ents[e]), cullFace)
    /\ idx' = idx + 1
    /\ pc' = IF idx < Len(View) THEN "SceneEntity" ELSE StepAfter("ScenePass")
    /\ UNCHANGED <<mRunning, hostVars, subVars, blurVars, targetVars, boundFbo, depthTest, blend,
                   depthMask, blendFunc, uiVars, timeVars, entVars, ops, pre>>

\* the sun: sunCoordCenter = glm::vec2(clipSpace); sunShader->Bind(); uniforms; fsQuad->Draw();
GlarePass(env) ==
    /\ pc = "GlarePass"
    /\ \E c \in env.centers : sunCoordCenter' = c
    /\ boundShader' = "sun"
    /\ drawn' = drawn \cup {Draw("quad", "glare", 0)}
    /\ pc' = StepAfter("GlarePass")
    /\ UNCHANGED <<mRunning, hostVars, subVars, samples, targetVars, boundFbo, boundTex, cullFace, depthTest,
                   blend, depthMask, blendFunc, uiVars, timeVars, entVars, idx, ops, pre>>

\* blend and depth state, radialBlurShader, fboTexBlack->Bind(), glDrawBuffers(1), fsQuad->Draw(), restore
BlurPass ==
    /\ pc = "BlurPass"
    /\ boundShader' = "blur"
    /\ boundTex' = "fboTexBlack"
    /\ drawn' = drawn \cup
         {[Draw("quad", "blur", 0) EXCEPT
              !.depthTest = FALSE, !.blend = TRUE, !.blendFunc = BlurBlendFunc,
              !.depthMask = FALSE, !.tex = "fboTexBlack",
              !.uni = BlurUniforms,
              !.taken = ShaderIterations(BlurUniforms.uIterations),
              !.toward = ShaderCenter(BlurUniforms.uCenter),
              !.bufs = IF boundFbo \in Names THEN BlurDrawBuffers ELSE {}]}
    /\ IF boundFbo \in Names
       THEN fb' = [fb EXCEPT ![boundFbo] = [@ EXCEPT !.bufs = {0, 1}]]
       ELSE UNCHANGED fb
    /\ blendFunc' = BlurBlendFunc
    /\ blend' = FALSE
    /\ depthTest' = TRUE
    /\ depthMask' = TRUE
    /\ pc' = StepAfter("BlurPass")
    /\ UNCHANGED <<mRunning, hostVars, subVars, blurVars, vpw, vph, fbo, fboTex, fboTexBlack, fboDep, iconFbo,
                   boundFbo, cullFace, uiVars, timeVars, entVars, idx, ops, pre>>

\* ImGui::Image((ImTextureID)fboTex->Handle(), {vpw, vph}, ...)
PresentToUI ==
    /\ pc = "PresentToUI"
    /\ pc' = StepAfter("PresentToUI")
    /\ UNCHANGED <<mRunning, hostVars, subVars, blurVars, targetVars, glVars, uiVars, timeVars, entVars, idx, ghostVars>>

(***************************************************************************)
(* The Hierarchy and Properties panels: at most one interaction per frame. *)
(***************************************************************************)
SetEntity(f) == ents' = [ents EXCEPT ![selected] = f]

\* if (ImGui::Button("Create entity")) { ... entity.emplace<TransformComponent>(); }
CreateEntity ==
    /\ Len(ents) < MaxEntities
    /\ ents' = Append(ents, NewEntity)
    /\ UNCHANGED selected

\* if (ImGui::IsItemClicked()) selected = entity;
SelectEntity ==
    /\ \E e \in 1..Len(ents) : e # selected /\ selected' = e
    /\ UNCHANGED ents

\* ImGui::InputText("Tag", &transform.tag)
EditTag ==
    /\ \E t \in Tags : t # ents[selected].tag /\ SetEntity([ents[selected] EXCEPT !.tag = t])
    /\ UNCHANGED selected

\* if (ImGui::Button("Add Mesh filter")) handle.emplace<MeshFilterComponent>();
AddMeshFilter ==
    /\ ~ents[selected].filter
    /\ SetEntity([ents[selected] EXCEPT !.filter = TRUE, !.mesh = "null"])
    /\ UNCHANGED selected

\* if (ImGui::Button("Add Mesh render")) handle.emplace<MeshRendererComponent>();
AddMeshRenderer ==
    /\ ~ents[selected].renderer
    /\ SetEntity([ents[selected] EXCEPT !.renderer = TRUE, !.shader = "null", !.texture = "null"])
    /\ UNCHANGED selected

\* if (ImGui::Button("Load")) component->mesh = resourceManager.GetMesh(component->resource);
LoadMesh(env) ==
    /\ ents[selected].filter
    /\ \E m \in env.mesh :
          /\ LoadedMesh(m) # ents[selected].mesh
          /\ SetEntity([ents[selected] EXCEPT !.mesh = LoadedMesh(m)])
    /\ UNCHANGED selected

\* the same button when load_mesh's undefined read stops the process
LoadMeshCrash(env) ==
    /\ selected # 0
    /\ ents[selected].filter
    /\ "undefined" \in env.mesh
    /\ UNCHANGED entVars

\* if (ImGui::Button("Load")) component->texture = FoxEngine::Texture::Create(component->resource).MakeUnique();
LoadTexture(env) ==
    /\ ents[selected].renderer
    /\ \E t \in env.texture : t # ents[selected].texture /\ SetEntity([ents[selected] EXCEPT !.texture = t])
    /\ UNCHANGED selected

\* if (ImGui::Button("Load Shader")) component->shader = resourceManager.GetShader(component->shaderResource);
LoadShader(env) ==
    /\ ents[selected].renderer
    /\ \E h \in env.shader : h # ents[selected].shader /\ SetEntity([ents[selected] EXCEPT !.shader = h])
    /\ UNCHANGED selected

\* the Properties panel acts on the selected entity
PropertiesEdit(env) ==
    /\ selected # 0
    /\ \/ EditTag
       \/ AddMeshFilter
       \/ AddMeshRenderer
       \/ LoadMesh(env)
       \/ LoadTexture(env)
       \/ LoadShader(env)

\* if (showHierarchy) {...} if (showProperties) {...}
EditorUI(env) ==
    /\ pc = "EditorUI"
    /\ \/ UNCHANGED entVars /\ pc' = StepAfter("EditorUI")
       \/ SelectEntity /\ UNCHANGED edits /\ pc' = StepAfter("EditorUI")
       \/ /\ edits < env.maxEdits
          /\ edits' = edits + 1
          /\ (CreateEntity \/ PropertiesEdit(env))
          /\ pc' = StepAfter("EditorUI")
       \/ /\ edits < env.maxEdits
          /\ LoadMeshCrash(env)
          /\ pc' = "CrashedLoading"
    /\ UNCHANGED <<mRunning, hostVars, subVars, blurVars, targetVars, glVars, uiVars, timeVars, idx, ghostVars>>

(***************************************************************************)
(* The icon pass.                                                          *)
(***************************************************************************)
\* glfwGetFramebufferSize; if (w != 0 && h != 0) { timer += deltaTime; if (timer > 1.0 / 8.0) { timer = 0.0;
IconGate(env) ==
    /\ pc = "IconGate"
    /\ \E zero \in env.minimised :
         \E wh \in (IF zero THEN {<<0, 0>>, <<0, 1>>, <<1, 0>>} ELSE {<<1, 1>>}) :
           /\ win' = wh
           /\ IF ~WindowHasArea(wh[1], wh[2])
              THEN /\ pc' = "RenderUI"
                   /\ UNCHANGED <<timer, wall, fires>>
              ELSE IF CadenceElapsed(timer + deltaTime)
                   THEN /\ timer' = TimerAfterFiring(timer + deltaTime)
                        /\ wall' = 0
                        /\ fires' = IF total <= env.horizon THEN fires + 1 ELSE fires
                        /\ pc' = "IconPass"
                   ELSE /\ timer' = timer + deltaTime
                        /\ pc' = "RenderUI"
                        /\ UNCHANGED <<wall, fires>>
    /\ UNCHANGED <<mRunning, hostVars, subVars, blurVars, targetVars, glVars, uiVars, deltaTime, total,
                   entVars, idx, ghostVars>>

\* rotate foxo; glBindRenderbuffer(0); glBindTexture(0); glBindFramebuffer(iconFbo); glViewport; glClear
IconPass ==
    /\ pc = "IconPass"
    /\ boundTex' = "none"
    /\ boundFbo' = iconFbo
    /\ drawn' = drawn \cup
         {[Draw("clear", "iconClear", 0) EXCEPT
              !.fbo = iconFbo, !.live = fb[iconFbo].alive,
              !.bufs = fb[iconFbo].bufs, !.tex = "none"]}
    /\ idx' = 1
    /\ pc' = IF Len(View) = 0 THEN StepAfter("IconPass") ELSE "IconEntity"
    /\ UNCHANGED <<mRunning, hostVars, subVars, blurVars, targetVars, boundShader, cullFace, depthTest, blend,
                   depthMask, blendFunc, uiVars, timeVars, entVars, ops, pre>>

\* one iteration of for (auto entity : view) of the icon pass; a call through a
\* null shared_ptr is undefined: the process stops there, or the call goes through
IconEntity ==
    /\ pc = "IconEntity"
    /\ LET e == View[idx]
           ent == ents[e]
           more == IF idx < Len(View) THEN "IconEntity" ELSE StepAfter("IconPass")
       IN
         IF IconSkips(ent)
         THEN /\ pc' = more
              /\ UNCHANGED <<boundShader, boundTex, drawn>>
         ELSE \/ /\ HasNull(ent)
                 /\ pc' = "Crashed"
                 /\ boundShader' = IF ent.shader # "null" THEN "entity" ELSE boundShader
                 /\ boundTex' = IF ent.shader # "null" /\ ent.texture # "null"
                                THEN "entity" ELSE boundTex
                 /\ UNCHANGED drawn
              \/ /\ pc' = more
                 /\ boundShader' = "entity"
                 /\ boundTex' = "entity"
                 /\ drawn' = drawn \cup {[Draw("mesh", "icon", e) EXCEPT !.tex = "entity"]}
    /\ idx' = idx + 1
    /\ UNCHANGED <<mRunning, hostVars, subVars, blurVars, targetVars, boundFbo, cullFace, depthTest, blend,
                   depthMask, blendFunc, uiVars, timeVars, entVars, ops, pre>>

\* iconTex->Bind(); glGetTexImage; glfwSetWindowIcon
IconReadback ==
    /\ pc = "IconReadback"
    /\ boundTex' = "iconTex"
    /\ pc' = StepAfter("IconReadback")
    /\ UNCHANGED <<mRunning, hostVars, subVars, blurVars, targetVars, boundFbo, boundShader, cullFace, depthTest,
                   blend, depthMask, blendFunc, uiVars, timeVars, entVars, idx, ghostVars>>

(***************************************************************************)
(* The end of the frame and of the loop.                                   *)
(***************************************************************************)
\* glBindFramebuffer(GL_FRAMEBUFFER, 0); glBindTexture(GL_TEXTURE_2D, 0); ImGui::Render(); ...
RenderUI ==
    /\ pc = "RenderUI"
    /\ boundFbo' = DefaultFramebuffer
    /\ boundTex' = "none"
    /\ pc' = StepAfter("RenderUI")
    /\ UNCHANGED <<mRunning, hostVars, subVars, blurVars, targetVars, boundShader, cullFace, depthTest, blend,
                   depthMask, blendFunc, uiVars, timeVars, entVars, idx, ghostVars>>

\* mWindow.SwapBuffers(); then the loop test while (mRunning)
Present ==
    /\ pc = "Present"
    /\ pc' = IF mRunning THEN "PollInput" ELSE "Shutdown"
    /\ UNCHANGED <<mRunning, hostVars, subVars, blurVars, targetVars, glVars, uiVars, timeVars, entVars, idx, ghostVars>>

\* mDispatcher.disconnect(this); mRegistry.clear(); ImGui shutdown
Shutdown ==
    /\ pc = "Shutdown"
    /\ listener' = FALSE
    /\ ents' = <<>>
    /\ uiBackend' = FALSE
    /\ pc' = StepAfter("Shutdown")
    /\ UNCHANGED <<mRunning, subVars, blurVars, targetVars, glVars, uiVars, timeVars,
                   selected, edits, idx, ghostVars>>

NextEnv(env) ==
    \/ PollInput(env)
    \/ UpdateCamera
    \/ BeginUI(env)
    \/ ViewportPanel(env)
    \/ ResizeIfNeeded
    \/ CreateColor0(env)
    \/ CreateColor1(env)
    \/ CreateDepth(env)
    \/ GenFramebuffer(env)
    \/ Attach
    \/ SetDrawBuffers
    \/ ScenePass
    \/ SceneEntity
    \/ GlarePass(env)
    \/ BlurPass
    \/ PresentToUI
    \/ EditorUI(env)
    \/ IconGate(env)
    \/ IconPass
    \/ IconEntity
    \/ IconReadback
    \/ RenderUI
    \/ Present
    \/ Shutdown

Init == InitEnv(EnvAll)
Next == NextEnv(EnvAll)
Spec == Init /\ [][Next]_vars

(***************************************************************************)
(* The render target: every viewport size, panel state and allocation      *)
(* outcome; the registry stays as Engine::Start builds it.                 *)
(***************************************************************************)
EnvTarget ==
    [EnvAll EXCEPT !.quit = {FALSE}, !.deltas = {IconPeriod}, !.minimised = {FALSE},
                   !.maxEdits = 0, !.mesh = {"ok"}, !.shader = {"cull"},
                   !.texture = {"ok"}, !.names = {1, 2},
                   !.samples = {}, !.centers = {NoCenter}]
InitTarget == InitEnv(EnvTarget)
NextTarget == NextEnv(EnvTarget)
SpecTarget == InitTarget /\ [][NextTarget]_vars

(***************************************************************************)
(* The passes over the registry: every editor interaction and load         *)
(* outcome; the viewport keeps one size.                                   *)
(***************************************************************************)
EnvScene ==
    [EnvAll EXCEPT !.sizes = {Denom}, !.panel = {TRUE}, !.toggle = {FALSE},
                   !.allocFail = {FALSE}, !.close = {FALSE},
                   !.deltas = {IconPeriod}, !.minimised = {FALSE},
                   !.names = {1, 2},
                   !.samples = {}, !.centers = {NoCenter}]
InitScene == InitEnv(EnvScene)
NextScene == NextEnv(EnvScene)
SpecScene == InitScene /\ [][NextScene]_vars

(***************************************************************************)
(* The icon cadence: every frame delta and every framebuffer size of the   *)
(* window, which can close; one viewport size, the registry as             *)
(* Engine::Start builds it.                                                *)
(***************************************************************************)
EnvGate ==
    [EnvAll EXCEPT !.sizes = {Denom}, !.panel = {TRUE}, !.toggle = {FALSE},
                   !.allocFail = {FALSE}, !.quit = {FALSE},
                   !.maxEdits = 0, !.mesh = {"ok"}, !.shader = {"cull"},
                   !.texture = {"ok"}, !.names = {1, 2},
                   !.samples = {}, !.centers = {NoCenter}]
InitGate == InitEnv(EnvGate)
NextGate == NextEnv(EnvGate)
SpecGate == InitGate /\ [][NextGate]_vars

\* 0.3 s, the window over which firings are counted
CountWindow == (3 * TicksPerSecond) \div 10

(***************************************************************************)
(* The icon cadence of a window that always has an area, with the firings  *)
(* of the first 0.3 s counted.                                             *)
(***************************************************************************)
EnvCadence == [EnvGate EXCEPT !.minimised = {FALSE}, !.horizon = CountWindow]
InitCadence == InitEnv(EnvCadence)
NextCadence == NextEnv(EnvCadence)
SpecCadence == InitCadence /\ [][NextCadence]_vars

(***************************************************************************)
(* The close of the window: the close callback can fire in any frame and   *)
(* the meshes may fail to load; the icon pass fires in every frame.  The   *)
(* loop is one thread of straight-line code, so a step that can run does.  *)
(***************************************************************************)
EnvClose ==
    [EnvGate EXCEPT !.deltas = {IconPeriod + 1}, !.minimised = {FALSE},
                    !.mesh = MeshLoadResults]
InitClose == InitEnv(EnvClose)
NextClose == NextEnv(EnvClose)
SpecClose == InitClose /\ [][NextClose]_vars /\ WF_vars(NextClose)

(***************************************************************************)
(* The GL objects and the GL state of the passes: every viewport size,     *)
(* every framebuffer name, a window that can close.                        *)
(***************************************************************************)
EnvGl ==
    [EnvAll EXCEPT !.panel = {TRUE}, !.toggle = {FALSE}, !.allocFail = {FALSE},
                   !.quit = {FALSE}, !.deltas = {IconPeriod}, !.minimised = {FALSE},
                   !.maxEdits = 0, !.mesh = {"ok"}, !.shader = {"cull"},
                   !.texture = {"ok"},
                   !.samples = {}, !.centers = {NoCenter}]
InitGl == InitEnv(EnvGl)
NextGl == NextEnv(EnvGl)
SpecGl == InitGl /\ [][NextGl]_vars

(***************************************************************************)
(* GLSL float: IEEE 754 binary32, round to nearest, ties to even.  A       *)
(* float is [s, m, e] of value s * m * 2^e with s in {1, -1} and m in      *)
(* 2^23 .. 2^24 - 1, or m = 0 for zero.  The shader's values stay far from *)
(* the ends of the exponent range, so e is not limited.  Every operation   *)
(* is rounded on its own; FMA is the fused multiply-add a build may use    *)
(* in place of a product followed by a sum.                                *)
(***************************************************************************)
Two12 == 4096
Two23 == 8388608
Two24 == 16777216
FZero == [s |-> 1, m |-> 0, e |-> 0]
\* 0.5
FHalf == [s |-> 1, m |-> Two23, e |-> -24]

RECURSIVE BitLen(_)
\* the number of binary digits of n > 0
BitLen(n) ==
    IF n >= Two24 THEN 24 + BitLen(n \div Two24)
    ELSE IF n >= Two12 THEN 12 + BitLen(n \div Two12)
    ELSE IF n >= 64 THEN 6 + BitLen(n \div 64)
    ELSE IF n >= 8 THEN 3 + BitLen(n \div 8)
    ELSE IF n >= 4 THEN 3 ELSE IF n >= 2 THEN 2 ELSE 1

\* the float nearest to s * (M + f) * 2^e, where 0 < f < 1 if sticky and
\* f = 0 if not; M < 2^30
RoundPack(s, M, e, sticky) ==
    IF M = 0 THEN FZero
    ELSE LET k == BitLen(M)
         IN IF k <= 24
            THEN [s |-> s, m |-> M * 2^(24 - k), e |-> e - (24 - k)]
            ELSE LET sft == k - 24
                     q == M \div 2^sft
                     r == M % 2^sft
                     half == 2^(sft - 1)
                     up == \/ r > half
                           \/ r = half /\ (sticky \/ q % 2 = 1)
                     q2 == IF up THEN q + 1 ELSE q
                 IN IF q2 = Two24
                    THEN [s |-> s, m |-> Two23, e |-> e + sft + 1]
                    ELSE [s |-> s, m |-> q2, e |-> e + sft]

\* float(n) of an integer -2^24 < n < 2^24
FromInt(n) == IF n < 0 THEN RoundPack(-1, -n, 0, FALSE)
              ELSE RoundPack(1, n, 0, FALSE)

\* |a| < |b|
MagLess(a, b) ==
    IF b.m = 0 THEN FALSE
    ELSE IF a.m = 0 THEN TRUE
    ELSE a.e < b.e \/ (a.e = b.e /\ a.m < b.m)

\* a < b
FLess(a, b) ==
    IF a.m = 0 /\ b.m = 0 THEN FALSE
    ELSE IF a.m = 0 THEN b.s = 1
    ELSE IF b.m = 0 THEN a.s = -1
    ELSE IF a.s # b.s THEN a.s = -1
    ELSE IF a.s = 1 THEN MagLess(a, b) ELSE MagLess(b, a)

FNeg(a) == [a EXCEPT !.s = -a.s]

\* |a| + |b| with the sign s; |a| >= |b| > 0
MagAdd(s, a, b) ==
    LET d == a.e - b.e
        M1 == a.m * 8
        M2 == IF d > 27 THEN 0 ELSE (b.m * 8) \div 2^d
        sticky == IF d > 27 THEN TRUE ELSE (b.m * 8) % 2^d # 0
    IN RoundPack(s, M1 + M2, a.e - 3, sticky)

\* |a| - |b| with the sign s; |a| >= |b| > 0
MagSub(s, a, b) ==
    LET d == a.e - b.e
        M1 == a.m * 8
        M2 == IF d > 27 THEN 0 ELSE (b.m * 8) \div 2^d
        sticky == IF d > 27 THEN TRUE ELSE (b.m * 8) % 2^d # 0
    IN RoundPack(s, IF sticky THEN M1 - M2 - 1 ELSE M1 - M2, a.e - 3, sticky)

\* a + b
FAdd(a, b) ==
    IF a.m = 0 THEN b
    ELSE IF b.m = 0 THEN a
    ELSE LET big == IF MagLess(a, b) THEN b ELSE a
             small == IF MagLess(a, b) THEN a ELSE b
         IN IF a.s = b.s THEN MagAdd(big.s, big, small)
            ELSE MagSub(big.s, big, small)

\* a - b
FSub(a, b) == FAdd(a, FNeg(b))

\* a * b: the 48-bit product from 12-bit halves, then rounded
FMul(a, b) ==
    IF a.m = 0 \/ b.m = 0 THEN FZero
    ELSE LET a1 == a.m \div Two12
             a0 == a.m % Two12
             b1 == b.m \div Two12
             b0 == b.m % Two12
             mid == a1 * b0 + a0 * b1
             low == (mid % Two12) * Two12 + a0 * b0
             H == a1 * b1 + mid \div Two12 + low \div Two24
             L == low % Two24
             q == IF H >= Two23 THEN H ELSE 2 * H + L \div Two23
             r == IF H >= Two23 THEN L ELSE L % Two23
             half == IF H >= Two23 THEN Two23 ELSE Two23 \div 2
             ex == a.e + b.e + (IF H >= Two23 THEN 24 ELSE 23)
             up == r > half \/ (r = half /\ q % 2 = 1)
             q2 == IF up THEN q + 1 ELSE q
         IN IF q2 = Two24
            THEN [s |-> a.s * b.s, m |-> Two23, e |-> ex + 1]
            ELSE [s |-> a.s * b.s, m |-> q2, e |-> ex]

\* the exact product of the significands: <<low 24 bits, high 24 bits>>
ProductLimbs(a, b) ==
    LET a1 == a.m \div Two12
        a0 == a.m % Two12
        b1 == b.m \div Two12
        b0 == b.m % Two12
        mid == a1 * b0 + a0 * b1
        low == (mid % Two12) * Two12 + a0 * b0
    IN <<low % Two24, a1 * b1 + mid \div Two12 + low \div Two24>>

\* Exact naturals below 2^96 as four limbs of 24 bits, the lowest first.
\* n * 2^sft, for a result below 2^96: limb i takes the low bits of the
\* limb q places down and the high bits of the one below that
BigShl(n, sft) ==
    LET q == sft \div 24
        r == sft % 24
        Limb(i) == IF i \in 1..4 THEN n[i] ELSE 0
    IN [i \in 1..4 |->
          (Limb(i - q) % 2^(24 - r)) * 2^r + Limb(i - q - 1) \div 2^(24 - r)]

\* a + b
BigAdd(a, b) ==
    LET s1 == a[1] + b[1]
        s2 == a[2] + b[2] + s1 \div Two24
        s3 == a[3] + b[3] + s2 \div Two24
        s4 == a[4] + b[4] + s3 \div Two24
    IN <<s1 % Two24, s2 % Two24, s3 % Two24, s4 % Two24>>

\* a - b for a >= b
BigSub(a, b) ==
    LET d1 == a[1] - b[1]
        d2 == a[2] - b[2] - (IF d1 < 0 THEN 1 ELSE 0)
        d3 == a[3] - b[3] - (IF d2 < 0 THEN 1 ELSE 0)
        d4 == a[4] - b[4] - (IF d3 < 0 THEN 1 ELSE 0)
    IN <<d1 % Two24, d2 % Two24, d3 % Two24, d4 % Two24>>

\* a < b
BigLess(a, b) ==
    IF a[4] # b[4] THEN a[4] < b[4]
    ELSE IF a[3] # b[3] THEN a[3] < b[3]
    ELSE IF a[2] # b[2] THEN a[2] < b[2]
    ELSE a[1] < b[1]

\* the number of binary digits of n > 0
BigBitLen(n) ==
    IF n[4] # 0 THEN 72 + BitLen(n[4])
    ELSE IF n[3] # 0 THEN 48 + BitLen(n[3])
    ELSE IF n[2] # 0 THEN 24 + BitLen(n[2])
    ELSE BitLen(n[1])

\* the float nearest to s * (n + f) * 2^e, where 0 < f < 1 if sticky and
\* f = 0 if not
BigRound(s, n, e, sticky) ==
    IF n = <<0, 0, 0, 0>> THEN FZero
    ELSE LET k == BigBitLen(n)
         IN IF k <= 24 THEN RoundPack(s, n[1], e, sticky)
            ELSE LET top == BigShl(n, 96 - k)
                     q == top[4]
                     rest == \/ top[3] % Two23 # 0
                             \/ top[2] # 0 \/ top[1] # 0 \/ sticky
                     up == top[3] >= Two23 /\ (rest \/ q % 2 = 1)
                     q2 == IF up THEN q + 1 ELSE q
                 IN IF q2 = Two24
                    THEN [s |-> s, m |-> Two23, e |-> e + k - 23]
                    ELSE [s |-> s, m |-> q2, e |-> e + k - 24]

\* fma(a, b, c): a * b + c with the product exact and one rounding
FMA(a, b, c) ==
    IF a.m = 0 \/ b.m = 0 THEN c
    ELSE IF c.m = 0 THEN FMul(a, b)
    ELSE LET P == <<ProductLimbs(a, b)[1], ProductLimbs(a, b)[2], 0, 0>>
             ps == a.s * b.s
             pe == a.e + b.e
             d == c.e - pe
         IN IF d <= -27
            THEN \* c is below an eighth of the product's last digit
                 BigRound(ps, IF ps = c.s THEN BigShl(P, 3)
                              ELSE BigSub(BigShl(P, 3), <<1, 0, 0, 0>>),
                          pe - 3, TRUE)
            ELSE IF d >= 51
            THEN \* the product is below an eighth of c's last digit
                 RoundPack(c.s, IF ps = c.s THEN c.m * 8 ELSE c.m * 8 - 1,
                           c.e - 3, TRUE)
            ELSE LET X == IF d < 0 THEN BigShl(P, -d) ELSE P
                     Y == IF d < 0 THEN <<c.m, 0, 0, 0>> ELSE BigShl(<<c.m, 0, 0, 0>>, d)
                     e0 == IF d < 0 THEN c.e ELSE pe
                 IN IF ps = c.s THEN BigRound(ps, BigAdd(X, Y), e0, FALSE)
                    ELSE IF BigLess(X, Y)
                    THEN BigRound(c.s, BigSub(Y, X), e0, FALSE)
                    ELSE BigRound(ps, BigSub(X, Y), e0, FALSE)

RECURSIVE DivSteps(_, _, _, _)
\* 5 * n more binary digits of the quotient q with remainder r of a
\* division by d
DivSteps(q, r, d, n) ==
    IF n = 0 THEN <<q, r>>
    ELSE DivSteps(32 * q + (32 * r) \div d, (32 * r) % d, d, n - 1)

\* a / b for b # 0
FDiv(a, b) ==
    IF a.m = 0 THEN FZero
    ELSE LET qr == DivSteps(a.m \div b.m, a.m % b.m, b.m, 5)
         IN RoundPack(a.s * b.s, qr[1], a.e - b.e - 25, qr[2] # 0)

(***************************************************************************)
(* The radial blur's fragment shader, followed for one fragment.           *)
(* sh.iterations is the loop bound (float iterations), sh.jitter is        *)
(* hash12(gl_FragCoord.xy), sh.tex what texture() returns for one channel  *)
(* of uChannel0 along the line to the centre; t, color and total are the shader's       *)
(* floats.  sh.uIterations is the value the frame driver uploaded, which   *)
(* the shader does not declare.  The shader declares nothing precise, so a *)
(* build may contract a product and the sum that uses it into one fused    *)
(* operation: sh.contract names the statements the build contracted.  lo,  *)
(* hi and minWeight are history: the least and the greatest sample and the *)
(* least weight of the turns taken.                                        *)
(***************************************************************************)
\* the builds: which of the two product-and-sum statements are contracted
Contractions == SUBSET {"weight", "color"}
\* values of hash12 in [0,1): the floats nearest to j / JitterDenom
JitterVals == {FDiv(FromInt(j), FromInt(JitterDenom)) : j \in 0..(JitterDenom - 1)}
\* the 8-bit channel values the texture can hold
Texels == 0..MaxTexel
\* what texture() returns for the 8-bit value k: k / 255
Texel(k) == FDiv(FromInt(k), FromInt(255))
\* uChannel0 along the sampled line: the texel of the near half (percent
\* below 1/2) and the texel of the far half
Textures == [{"near", "far"} -> {Texel(k) : k \in Texels}]

\* float percent = (t + jitter) / iterations;
Percent(t, jitter, iterations) ==
    FDiv(FAdd(FromInt(t), jitter), FromInt(iterations))

\* float weight = 4.0 * (percent - percent * percent);
Weight(percent, contract) ==
    FMul(FromInt(4),
         IF "weight" \in contract THEN FMA(FNeg(percent), percent, percent)
         ELSE FSub(percent, FMul(percent, percent)))

\* color += _sample.rgb * weight;
Accumulate(color, sample, weight, contract) ==
    IF "color" \in contract THEN FMA(sample, weight, color)
    ELSE FAdd(color, FMul(sample, weight))

\* getSample(vUv + toCenter * percent / uResolution)
GetSample(tex, percent) ==
    IF FLess(percent, FHalf) THEN tex["near"] ELSE tex["far"]

Min2(a, b) == IF FLess(a, b) THEN a ELSE b
Max2(a, b) == IF FLess(b, a) THEN a ELSE b

\* main (FE_FRAG) up to the loop
FragmentStart(uIterations, jitter, tex, contract) ==
    [uIterations |-> uIterations,
     iterations |-> ShaderIterations(uIterations),
     contract |-> contract,
     jitter |-> jitter, tex |-> tex, t |-> 0,
     color |-> FZero, total |-> FZero,
     minWeight |-> FZero, lo |-> Texel(MaxTexel), hi |-> FZero,
     done |-> FALSE, outColor |-> [defined |-> FALSE, val |-> FZero]]

\* color / total; a division by zero has no defined result
Divide(color, tot) ==
    IF tot.m = 0 THEN [defined |-> FALSE, val |-> FZero]
    ELSE [defined |-> TRUE, val |-> FDiv(color, tot)]

\* one turn of for (float t = 0.0; t < iterations; t++)
BlurIterate ==
    /\ sh # NoRun
    /\ ~sh.done
    /\ sh.t < sh.iterations
    /\ LET percent == Percent(sh.t, sh.jitter, sh.iterations)
           weight == Weight(percent, sh.contract)
           sample == GetSample(sh.tex, percent)
       IN sh' = [sh EXCEPT !.color = Accumulate(sh.color, sample, weight,
                                                sh.contract),
                           !.total = FAdd(sh.total, weight),
                           !.t = sh.t + 1,
                           !.minWeight = Min2(sh.minWeight, weight),
                           !.lo = Min2(sh.lo, sample),
                           !.hi = Max2(sh.hi, sample)]
    /\ UNCHANGED <<engineVars, rm, wd>>

\* outColor = vec4(color / total, 1.0);
BlurOutput ==
    /\ sh # NoRun
    /\ ~sh.done
    /\ ~(sh.t < sh.iterations)
    /\ sh' = [sh EXCEPT !.outColor = Divide(sh.color, sh.total), !.done = TRUE]
    /\ UNCHANGED <<engineVars, rm, wd>>

\* the engine as Engine::Start builds it, one framebuffer name
EnvIdle == [EnvGate EXCEPT !.names = {1}, !.close = {FALSE}]

InitShader ==
    /\ StartEnv(EnvIdle)
    /\ rm = NoRun /\ wd = NoRun
    /\ \E u \in SampleVals, j \in JitterVals, tex \in Textures,
          c \in Contractions :
          sh = FragmentStart(u, j, tex, c)
NextShader == BlurIterate \/ BlurOutput
SpecShader == InitShader /\ [][NextShader]_vars

(***************************************************************************)
(* class ResourceManager.  rm.cache["mesh"] is mMeshes and                 *)
(* rm.cache["shader"] is mShaders: per name the asset its weak_ptr         *)
(* observes, 0 for no entry or an empty weak_ptr.  rm.held are the         *)
(* shared_ptr members of the components (0 is an empty handle), rm.live    *)
(* the assets not yet destroyed.  rm.given and rm.last are history: the    *)
(* asset most recently returned per name, and the last request.            *)
(***************************************************************************)
Kinds == {"mesh", "shader"}
ResNames == 1..MaxResNames
Slots == 1..MaxSlots
AssetIds == 1..MaxLoads
\* mutant: the map stores shared_ptr, so every entry owns its asset
CacheOwnsStrong(cache, id) ==
    Cardinality({kn \in Kinds \X ResNames : cache[kn[1]][kn[2]] = id})
\* std::weak_ptr: the entries of the maps own nothing
CacheOwns(cache, id) == 0

\* use_count() of an asset
UseCount(held, cache, id) ==
    Cardinality({ks \in Kinds \X Slots : held[ks[1]][ks[2]] = id})
        + CacheOwns(cache, id)

\* the assets that survive: those some shared_ptr still owns
Surviving(ids, held, cache) ==
    {id \in ids : UseCount(held, cache, id) > 0}

\* it->second.lock(): the observed asset if it still exists, else empty
Lock(entry, live) == IF entry # 0 /\ entry \in live THEN entry ELSE 0

NoRequest == [kind |-> "none", name |-> 0, slot |-> 0, prev |-> 0,
              prevHeld |-> FALSE, ret |-> 0, loaded |-> FALSE]

\* ResourceManager as constructed, every component handle empty
NewResourceManager ==
    [cache |-> [k \in Kinds |-> [n \in ResNames |-> 0]],
     held |-> [k \in Kinds |-> [sl \in Slots |-> 0]],
     live |-> {},
     loads |-> 0,
     given |-> [k \in Kinds |-> [n \in ResNames |-> 0]],
     last |-> NoRequest,
     status |-> "running"]

\* component.handle = resourceManager.Get...(name): the lookup, the load on
\* a miss, the store into the map, then the assignment to the component,
\* which drops the handle the component held before
Get(kind, slot, name, outcome) ==
    /\ rm # NoRun
    /\ rm.status = "running"
    /\ rm.loads < MaxLoads
    /\ LET hit == Lock(rm.cache[kind][name], rm.live)
           fresh == rm.loads + 1
           ref == IF hit # 0 THEN hit
                  ELSE IF outcome # "null" THEN fresh ELSE 0
           cache2 == IF hit # 0 THEN rm.cache
                     ELSE [rm.cache EXCEPT ![kind][name] = ref]
           held2 == [rm.held EXCEPT ![kind][slot] = ref]
           wasHeld == /\ rm.given[kind][name] # 0
                      /\ \E ks \in Kinds \X Slots :
                            rm.held[ks[1]][ks[2]] = rm.given[kind][name]
       IN rm' = [rm EXCEPT
                    !.cache = cache2,
                    !.held = held2,
                    !.live = Surviving(rm.live \cup (IF ref # 0 THEN {ref} ELSE {}),
                                       held2, cache2),
                    !.loads = IF hit # 0 THEN rm.loads ELSE fresh,
                    !.given = [rm.given EXCEPT ![kind][name] = ref],
                    !.last = [kind |-> kind, name |-> name, slot |-> slot,
                              prev |-> rm.given[kind][name],
                              prevHeld |-> wasHeld,
                              ret |-> ref, loaded |-> (hit = 0)]]
    /\ UNCHANGED <<engineVars, sh, wd>>

\* a miss whose load_mesh makes the undefined read, and the process stops
GetCrash(kind, name, outcome) ==
    /\ rm # NoRun
    /\ rm.status = "running"
    /\ rm.loads < MaxLoads
    /\ Lock(rm.cache[kind][name], rm.live) = 0
    /\ outcome = "undefined"
    /\ rm' = [rm EXCEPT !.status = "crashed"]
    /\ UNCHANGED <<engineVars, sh, wd>>

\* std::shared_ptr<FoxEngine::Mesh> GetMesh(std::string_view resource)
GetMesh ==
    \E slot \in Slots, name \in ResNames, outcome \in MeshLoadResults :
        \/ Get("mesh", slot, name, outcome)
        \/ GetCrash("mesh", name, outcome)

\* std::shared_ptr<FoxEngine::Shader> GetShader(std::string_view resource)
GetShader ==
    \E slot \in Slots, name \in ResNames, outcome \in ShaderLoadResults :
        Get("shader", slot, name, outcome)

\* a component is destroyed or its handle reset: its shared_ptr lets go
Release ==
    /\ rm # NoRun
    /\ rm.status = "running"
    /\ \E kind \in Kinds, slot \in Slots :
          /\ rm.held[kind][slot] # 0
          /\ LET held2 == [rm.held EXCEPT ![kind][slot] = 0]
             IN rm' = [rm EXCEPT !.held = held2,
                                 !.live = Surviving(rm.live, held2, rm.cache),
                                 !.last = NoRequest]
    /\ UNCHANGED <<engineVars, sh, wd>>

InitCache ==
    /\ StartEnv(EnvIdle)
    /\ sh = NoRun /\ wd = NoRun
    /\ rm = NewResourceManager
NextCache == GetMesh \/ GetShader \/ Release
SpecCache == InitCache /\ [][NextCache]_vars

(***************************************************************************)
(* RedirectWorkingDirectory.  A directory on the path from the root to the *)
(* starting directory is named by its depth; wd.entry[d] is what the name  *)
(* "foxengine_data" refers to inside the directory at depth d.  A working  *)
(* directory is <<"at", d>> or, inside the data directory, <<"data", d>>.  *)
(***************************************************************************)
\* for (int i = 0; i < 4; ++i)
SearchLevels == 4
Depths == 0..MaxDepth
\* nothing of that name, a directory, or a regular file
EntryKinds == {"none", "dir", "file"}

\* std::filesystem::exists(lookingFor), relative to the working directory
Exists(entry, cwd) == entry[cwd[2]] # "none"

\* current_path().parent_path(): the parent of the root is the root
ParentPath(cwd) == <<"at", IF cwd[2] = 0 THEN 0 ELSE cwd[2] - 1>>

\* auto stored = std::filesystem::current_path();
SearchStart(entry, depth) ==
    [entry |-> entry, stored |-> <<"at", depth>>, cwd |-> <<"at", depth>>,
     i |-> 0, examined |-> {}, status |-> "searching"]

\* exists(lookingFor) holds and current_path(lookingFor) succeeds: return
WdEnter ==
    /\ wd # NoRun
    /\ wd.status = "searching" /\ wd.i < SearchLevels
    /\ Exists(wd.entry, wd.cwd)
    /\ wd.entry[wd.cwd[2]] = "dir"
    /\ wd' = [wd EXCEPT !.cwd = <<"data", wd.cwd[2]>>,
                        !.examined = wd.examined \cup {wd.cwd[2]},
                        !.status = "returned"]
    /\ UNCHANGED <<engineVars, sh, rm>>

\* exists(lookingFor) holds for a regular file: current_path(lookingFor)
\* throws filesystem_error, which nothing catches
WdThrow ==
    /\ wd # NoRun
    /\ wd.status = "searching" /\ wd.i < SearchLevels
    /\ Exists(wd.entry, wd.cwd)
    /\ wd.entry[wd.cwd[2]] # "dir"
    /\ wd' = [wd EXCEPT !.examined = wd.examined \cup {wd.cwd[2]},
                        !.status = "terminated"]
    /\ UNCHANGED <<engineVars, sh, rm>>

\* nothing found at this level: current_path(current_path().parent_path())
WdAscend ==
    /\ wd # NoRun
    /\ wd.status = "searching" /\ wd.i < SearchLevels
    /\ ~Exists(wd.entry, wd.cwd)
    /\ wd' = [wd EXCEPT !.cwd = ParentPath(wd.cwd),
                        !.examined = wd.examined \cup {wd.cwd[2]},
                        !.i = wd.i + 1]
    /\ UNCHANGED <<engineVars, sh, rm>>

\* after the loop: std::filesystem::current_path(stored);
WdRestore ==
    /\ wd # NoRun
    /\ wd.status = "searching" /\ ~(wd.i < SearchLevels)
    /\ wd' = [wd EXCEPT !.cwd = wd.stored, !.status = "returned"]
    /\ UNCHANGED <<engineVars, sh, rm>>

InitRedirect ==
    /\ StartEnv(EnvIdle)
    /\ sh = NoRun /\ rm = NoRun
    /\ \E entry \in [Depths -> EntryKinds], depth \in Depths :
          wd = SearchStart(entry, depth)
NextRedirect == WdEnter \/ WdThrow \/ WdAscend \/ WdRestore
SpecRedirect == InitRedirect /\ [][NextRedirect]_vars

(***************************************************************************)
(* The blur inputs: every value of the "Radial iterations" control and     *)
(* every position of the sun; one viewport size.                           *)
(***************************************************************************)
EnvBlur ==
    [EnvGate EXCEPT !.deltas = {IconPeriod}, !.minimised = {FALSE},
                    !.samples = SampleVals, !.centers = CenterVals]
InitBlur == InitEnv(EnvBlur)
NextBlur == NextEnv(EnvBlur)
SpecBlur == InitBlur /\ [][NextBlur]_vars

(***************************************************************************)
(* Properties of the render target.                                        *)
(***************************************************************************)
PositiveSize == size # NoSize /\ size[1] > 0 /\ size[2] > 0
ZeroAreaSize == size # NoSize /\ (size[1] = 0 \/ size[2] = 0)
InScenePass == pc \in {"ScenePass", "SceneEntity"}

\* an attachment of the main target is w/Denom by h/Denom pixels, exactly
DimsMatch(t, s) == t # NoTex /\ t[1] * Denom = s[1] /\ t[2] * Denom = s[2]

\* C1: whenever the scene pass draws for a requested size (w,h), w > 0 and
\* h > 0, the two colour attachments and the depth attachment of the main
\* render target are exactly (w,h), and so are the recorded vpw, vph.
C1_AttachmentsMatchRequest ==
    (InScenePass /\ PositiveSize) =>
        /\ fbo \in Names
        /\ fb[fbo].alive
        /\ DimsMatch(fb[fbo].c0, size)
        /\ DimsMatch(fb[fbo].c1, size)
        /\ DimsMatch(fb[fbo].dep, size)
        /\ DimsMatch(<<vpw, vph>>, size)

\* C2: when a frame requests the positive size the previous frame requested,
\* it deletes no framebuffer and creates no framebuffer, texture or renderbuffer.
C2_SameSizeNoReallocation ==
    (sameReq /\ PositiveSize) => ops = ZeroOps

\* C3: in a frame whose requested size has zero area, the main render target
\* (handle, framebuffer object, attachments, vpw, vph) is what it was when the
\* frame began.
C3_ZeroAreaKeepsTarget ==
    ZeroAreaSize => Target = pre

\* a zero-width request of a new height reaches the end of the frame with
\* the earlier target in place
C3_Witness ==
    /\ pc = "RenderUI"
    /\ ZeroAreaSize
    /\ size[1] = 0 /\ size[2] > 0 /\ size[2] # vph * Denom
    /\ pre.obj.alive

\* C4: when the creation of an attachment fails during a resize, the render
\* target the frame began with is intact: framebuffer alive with its
\* attachments, vpw and vph as they were.
C4_FailureKeepsTarget ==
    (pc = "AllocFailed" /\ pre.obj.alive) => Target = pre

\* C5: in a frame that deletes the old framebuffer, the new framebuffer has
\* already been created and has its two colour attachments and its depth
\* attachment.
C5_DeleteAfterNewComplete ==
    ops.delFb > 0 =>
        /\ ops.genFb > 0
        /\ fbo \in Names
        /\ fb[fbo].alive
        /\ fb[fbo].c0 # NoTex /\ fb[fbo].c1 # NoTex /\ fb[fbo].dep # NoTex

(***************************************************************************)
(* Properties of the frame driver.                                         *)
(***************************************************************************)
\* the place of each step in the sequence of section 4.6; the steps the
\* section does not name take the place the source gives them
Rank(p) ==
    CASE p = "PollInput"      -> 10
      [] p = "UpdateCamera"   -> 20
      [] p = "BeginUI"        -> 30
      [] p = "ViewportPanel"  -> 31
      [] p = "ResizeIfNeeded" -> 40
      [] p = "CreateColor0"   -> 41
      [] p = "CreateColor1"   -> 42
      [] p = "CreateDepth"    -> 43
      [] p = "GenFramebuffer" -> 44
      [] p = "Attach"         -> 45
      [] p = "SetDrawBuffers" -> 46
      [] p = "ScenePass"      -> 50
      [] p = "SceneEntity"    -> 51
      [] p = "GlarePass"      -> 60
      [] p = "BlurPass"       -> 70
      [] p = "PresentToUI"    -> 80
      [] p = "EditorUI"       -> 81
      [] p = "IconGate"       -> 82
      [] p = "IconPass"       -> 90
      [] p = "IconEntity"     -> 91
      [] p = "IconReadback"   -> 92
      [] p = "RenderUI"       -> 100
      [] p = "Present"        -> 110
      [] OTHER                -> 0
InFrame(p) == Rank(p) > 0

\* C6: within a frame the steps run in the order PollInput, UpdateCamera,
\* BeginUI, ResizeIfNeeded, ScenePass, GlarePass, BlurPass, PresentToUI,
\* IconPass, RenderUI, Present: every step goes to a later step of the
\* sequence (a pass loop may repeat its own step), and only Present starts
\* the next frame.
C6_FixedStepOrder ==
    [][ (InFrame(pc) /\ InFrame(pc')) =>
           \/ Rank(pc) < Rank(pc')
           \/ pc' = pc /\ pc \in {"SceneEntity", "IconEntity"}
           \/ pc = "Present" /\ pc' = "PollInput" ]_vars

\* a frame that ran the viewport block and the icon pass is presented
C6_Witness ==
    /\ pc = "Present"
    /\ \E d \in drawn : d.pass = "glare"
    /\ \E d \in drawn : d.pass = "blur"
    /\ \E d \in drawn : d.pass = "icon"

\* C7 as claimed: a frame skips the viewport block only when the viewport
\* size it read has a zero component.
C7_SkippedOnlyWhenZero ==
    (pc = "EditorUI" /\ drawn = {}) => ZeroAreaSize

\* C7: the viewport block is entered exactly when showViewport is set,
\* ImGui::Begin("Viewport") returns true and both components of the content
\* size are non-zero, and it is entered from the viewport panel only.
C7_BlockEntry ==
    [][ /\ pc = "ViewportPanel" =>
             ((pc' = "ResizeIfNeeded") <=>
                 (showViewport /\ panelOpen' /\ size' # NoSize
                    /\ size'[1] # 0 /\ size'[2] # 0))
        /\ pc' = "ResizeIfNeeded" => pc = "ViewportPanel" ]_vars

\* the block is skipped because the panel is hidden or collapsed, while a
\* render target of non-zero size exists
C7_Witness ==
    /\ pc = "EditorUI"
    /\ size = NoSize
    /\ drawn = {}
    /\ pre.obj.alive /\ vpw > 0 /\ vph > 0

(***************************************************************************)
(* Properties of the passes over the registry.                             *)
(***************************************************************************)
DrawnIn(pass, e) == \E d \in drawn : d.pass = pass /\ d.e = e
NullRes(d) == d.res[1] = "null" \/ d.res[2] = "null" \/ d.res[3] = "null"

\* the iteration of the scene pass on an entity whose mesh, shader or texture
\* is null binds nothing, draws nothing and leaves the GL state and the
\* framebuffer objects as they are, and the pass goes on to the next entity
\* or, after the last one, to the glare pass
SceneSkipStep ==
    [][ (pc = "SceneEntity" /\ HasNull(ents[View[idx]])) =>
           /\ UNCHANGED <<glVars, fb, drawn>>
           /\ idx' = idx + 1
           /\ pc' = IF idx < Len(View) THEN "SceneEntity" ELSE "GlarePass" ]_vars

\* the entities the scene pass of this frame skipped for a null resource
SkippedNulls ==
    UNION {d.nulls : d \in {c \in drawn : c.what = "clear" /\ c.pass = "clear"}}

\* C8: the scene pass skips every entity whose mesh, shader or texture is
\* null: no draw of the scene pass is issued for such an entity, the pass
\* goes on and draws every remaining entity it does not skip, and a frame
\* whose scene pass skipped such an entity completes: the process does not
\* stop in it.
C8_SceneSkipsNull ==
    /\ \A d \in drawn : d.pass = "scene" => ~NullRes(d)
    /\ pc = "GlarePass" =>
          \A k \in 1..Len(View) :
              ~SceneSkips(ents[View[k]]) => DrawnIn("scene", View[k])
    /\ SkippedNulls # {} => pc # "Crashed"

\* C9: the icon pass never uses an entity with a null mesh, shader or
\* texture: no draw of the icon pass is issued with a null resource and the
\* pass never stops the process on one.
C9_IconSkipsNull ==
    /\ pc # "Crashed"
    /\ \A d \in drawn : d.pass = "icon" => ~NullRes(d)

\* every draw of a pass was routed by the tag the entity had when the pass
\* reached it
RoutedDraws ==
    \A d \in drawn :
        /\ d.pass = "scene" => (d.tag # IconTag /\ ~NullRes(d))
        /\ d.pass = "icon" => d.tag = IconTag

\* C10 as claimed: the scene pass draws entities not tagged "__icon" only,
\* the icon pass entities tagged "__icon" only, and no entity is drawn into
\* both the main target and the icon target in the same frame.
C10_TagPartitionsFrame ==
    /\ RoutedDraws
    /\ \A e \in 1..Len(ents) : ~(DrawnIn("scene", e) /\ DrawnIn("icon", e))

\* C10: each pass routes by the tag an entity has when the pass reaches it.
\* The scene pass draws an entity with all resources present iff its tag is
\* then not "__icon", the icon pass iff its tag is then "__icon"; an entity is
\* drawn into both targets in one frame only if its tag differed at the two
\* passes.
C10_TagRoutesAtPassTime ==
    [][ /\ RoutedDraws'
        /\ (pc = "SceneEntity" /\ ~HasNull(ents[View[idx]])) =>
              LET e == View[idx] IN
                (\E d \in drawn' : d.pass = "scene" /\ d.e = e)
                    <=> ents[e].tag # IconTag
        /\ (pc = "IconEntity" /\ ~HasNull(ents[View[idx]])) =>
              LET e == View[idx] IN
                (\E d \in drawn' : d.pass = "icon" /\ d.e = e)
                    <=> ents[e].tag = IconTag
      ]_vars

\* an entity drawn into the main target is retagged in the Properties panel
\* and drawn into the icon target in the same frame
C10_Witness ==
    \E e \in 1..Len(ents) :
        /\ \E d \in drawn : d.e = e /\ d.pass = "scene" /\ d.tag = DefaultTag
        /\ \E d \in drawn : d.e = e /\ d.pass = "icon" /\ d.tag = IconTag

(***************************************************************************)
(* Properties of the icon cadence.                                         *)
(***************************************************************************)
\* C11: the icon pass is entered only from the cadence test, only in a frame
\* where the wall time accumulated since the previous firing (or since the
\* start) is at least the period of 0.125 s, and right after the firing the
\* accumulator is 0.
C11_FiresAtThresholdAndResets ==
    [][ pc' = "IconPass" =>
          /\ pc = "IconGate"
          /\ wall >= IconPeriod
          /\ timer + deltaTime >= IconPeriod
          /\ timer' = 0 ]_vars

\* the pass fires on time accumulated over several frames, each shorter than
\* the period, and the accumulator is back at 0
C11_Witness ==
    /\ pc = "IconPass"
    /\ deltaTime < IconPeriod
    /\ timer = 0
    /\ wall = 0

\* C12: when the frame deltas since the start sum to 0.3 s, exactly 2 icon
\* snapshots have fired (period 0.125 s, accumulator 0 at the start).
C12_ExactlyTwoFirings ==
    (pc = "RenderUI" /\ total = CountWindow) => fires = 2

\* the window has no area in this frame
NoArea == win # NoSize /\ (win[1] = 0 \/ win[2] = 0)

\* C13 as claimed: the wall time of every frame is added to the accumulator
\* and the icon pass fires in every frame in which the accumulated wall time
\* has passed the period, whatever else holds.
C13_GatedByTimerAlone ==
    [][ pc = "IconGate" =>
          /\ (pc' = "IconPass") <=> (wall > IconPeriod)
          /\ pc' # "IconPass" => timer' = timer + deltaTime ]_vars

\* C13: the icon pass is gated by the window's framebuffer size and the
\* cadence timer.  In a frame where the size has a zero component the frame's
\* time is not added and the pass does not fire; in every other frame the
\* time is added and the pass fires exactly when the accumulator then exceeds
\* the period, and the pass is entered in no other way.
C13_GatedByWindowAndTimer ==
    [][ /\ pc = "IconGate" =>
             IF NoArea'
             THEN timer' = timer /\ pc' = "RenderUI"
             ELSE IF timer + deltaTime > IconPeriod
                  THEN timer' = 0 /\ pc' = "IconPass"
                  ELSE timer' = timer + deltaTime /\ pc' = "RenderUI"
        /\ pc' = "IconPass" => pc = "IconGate" ]_vars

\* a frame of a window without area ends without an icon pass although the
\* accumulated time has passed the period
C13_Witness ==
    /\ pc = "RenderUI"
    /\ NoArea
    /\ wall > IconPeriod
    /\ timer + deltaTime > IconPeriod
    /\ \A d \in drawn : d.pass # "icon" /\ d.pass # "iconClear"

(***************************************************************************)
(* Properties of the close of the window.                                  *)
(***************************************************************************)
\* C14: once a close event has been drained the running flag is cleared and
\* stays cleared, no further frame is started, and the driver reaches the
\* end of shutdown with the close listener disconnected, the registry
\* cleared and the UI backend torn down.
C14_CloseLeadsToShutdown ==
    /\ [][~mRunning => ~mRunning']_vars
    /\ [][~mRunning => pc' # "PollInput"]_vars
    /\ ~mRunning ~> (pc = "Exited" /\ ~listener /\ ents = <<>> /\ ~uiBackend)

(***************************************************************************)
(* Properties of the framebuffer objects.                                  *)
(***************************************************************************)
IsLive(n) == n = 0 \/ (n \in Names /\ fb[n].alive)

\* C15: the framebuffer bound as current is always framebuffer 0 or a
\* framebuffer object that has been generated and not deleted, and every
\* clear and draw call was issued with such a framebuffer bound.
C15_BoundFramebufferValid ==
    /\ IsLive(boundFbo)
    /\ \A d \in drawn : d.live

\* the scene pass draws into a framebuffer generated in this frame under
\* another name than the one the frame began with, which has been deleted
C15_Witness ==
    /\ pc = "GlarePass"
    /\ ops.delFb = 1 /\ ops.genFb = 1
    /\ pre.fbo \in Names /\ pre.fbo # fbo /\ ~fb[pre.fbo].alive
    /\ boundFbo = fbo
    /\ \E d \in drawn : d.pass = "scene" /\ d.fbo = fbo

\* C16: after shutdown no generated framebuffer object remains undeleted.
C16_NoFramebufferLeak ==
    pc = "Exited" => \A n \in Names : ~fb[n].alive

(***************************************************************************)
(* Properties of the glare and blur passes.                                *)
(***************************************************************************)
Additive == <<"ONE", "ONE">>

\* C17: the sun billboard is drawn with the depth test disabled and additive
\* blending enabled.
C17_GlareDrawState ==
    \A d \in drawn :
        d.pass = "glare" => (~d.depthTest /\ d.blend /\ d.blendFunc = Additive)

\* C18: the sun billboard is drawn with the secondary colour attachment as
\* the only writable draw buffer, attachment 0 is not written.
C18_GlareWritesSecondaryOnly ==
    \A d \in drawn : d.pass = "glare" => (0 \notin d.bufs /\ 1 \in d.bufs)

\* C19: the radial blur is drawn with blending enabled and blend function
\* (ONE, ONE), depth writes disabled and attachment 0 as the only draw
\* buffer; right after the blur pass the depth test and the depth writes are
\* enabled, blending is disabled and both colour attachments are draw buffers.
C19_BlurStateAndRestore ==
    [][ pc = "BlurPass" =>
          /\ \E d \in drawn' \ drawn :
                /\ d.pass = "blur"
                /\ d.blend /\ d.blendFunc = Additive
                /\ ~d.depthMask
                /\ d.bufs = {0}
          /\ pc' = "PresentToUI"
          /\ depthTest' /\ depthMask' /\ ~blend'
          /\ fb'[fbo].bufs = {0, 1} ]_vars

\* the blur pass of a frame that reallocated the target is over, the state
\* restored
C19_Witness ==
    /\ pc = "PresentToUI"
    /\ ops.genFb = 1
    /\ \E d \in drawn : d.pass = "blur" /\ d.fbo = fbo /\ d.bufs = {0}
    /\ depthTest /\ depthMask /\ ~blend

\* C20: a blur draw samples fboTexBlack, the secondary attachment of the
\* target; earlier in the same frame, and after the frame's reallocation if
\* there was one, that attachment was cleared and then drawn into by the
\* glare pass, and it is not a draw buffer while the blur reads it.
C20_BlurReadsWrittenAttachment ==
    \A d \in drawn :
        d.pass = "blur" =>
            /\ d.tex = "fboTexBlack" /\ d.fbo = fbo /\ fb[fbo].c1 = fboTexBlack
            /\ 1 \notin d.bufs
            /\ \E c \in drawn, g \in drawn :
                  /\ c.pass = "clear" /\ g.pass = "glare"
                  /\ c.seq < g.seq /\ g.seq < d.seq
                  /\ c.fbo = fbo /\ g.fbo = fbo
                  /\ 1 \in c.bufs /\ 1 \in g.bufs
                  /\ c.gen = ops.genFb

\* the blur has read the secondary attachment of a target that was
\* reallocated in this frame
C20_Witness ==
    /\ pc = "PresentToUI"
    /\ ops.delFb = 1 /\ ops.genFb = 1
    /\ \E d \in drawn : d.pass = "blur" /\ d.tex = "fboTexBlack" /\ d.gen = 1

(***************************************************************************)
(* Properties of the culling state of the scene pass.                      *)
(***************************************************************************)
\* C21: back-face culling is enabled before each entity of the scene pass is
\* processed and when the pass has ended, and a draw of the scene pass is
\* issued with culling disabled exactly when the entity's shader reports
\* that it does not cull back faces.
C21_CullingRestored ==
    /\ pc \in {"SceneEntity", "GlarePass"} => cullFace
    /\ \A d \in drawn : d.pass = "scene" => (d.cull <=> d.res[2] # "nocull")

\* the scene pass has drawn an entity without culling and, after it, an entity
\* with culling
C21_Witness ==
    /\ pc = "GlarePass"
    /\ \E d1 \in drawn, d2 \in drawn :
          /\ d1.pass = "scene" /\ d2.pass = "scene"
          /\ d1.seq < d2.seq
          /\ d1.res[2] = "nocull" /\ ~d1.cull
          /\ d2.res[2] = "cull" /\ d2.cull

(***************************************************************************)
(* Properties of the blur inputs and of the end of the frame.              *)
(***************************************************************************)
\* C23: the radial blur takes exactly as many samples as the iteration count
\* the frame driver uploaded for the frame, and samples toward the focus
\* point the frame driver uploaded.
C23_BlurFollowsDriver ==
    \A d \in drawn :
        d.pass = "blur" =>
            (d.taken = d.uni.uIterations /\ d.toward = d.uni.uCenter)

\* C25: the iteration count uploaded as uIterations is in 1..128 in every
\* frame.
C25_IterationsPositive ==
    \A d \in drawn : d.pass = "blur" => d.uni.uIterations \in 1..128

\* C26: when the UI has been rendered and the frame is presented, the bound
\* framebuffer is framebuffer 0 and the bound 2D texture is 0.
C26_DefaultTargetAtPresent ==
    pc = "Present" => (boundFbo = 0 /\ boundTex = "none")

\* a frame in which the viewport block ran and the icon pass fired is
\* presented
C26_Witness ==
    /\ pc = "Present"
    /\ \E d \in drawn : d.pass = "scene" /\ d.fbo = fbo /\ fbo # 0
    /\ \E d \in drawn : d.pass = "icon" /\ d.fbo = iconFbo
    /\ boundFbo = 0

(***************************************************************************)
(* Properties of the blur weights.                                         *)
(***************************************************************************)
\* C22: for every iteration count in 1..128 the driver configures and every
\* jitter no weight is negative, the weights of a finished fragment sum to
\* more than zero, and the output lies between the least and the greatest
\* sample.
C22_ConvexForEveryN ==
    (sh # NoRun /\ sh.uIterations \in 1..128) =>
        /\ ~FLess(sh.minWeight, FZero)
        /\ sh.done =>
              /\ FLess(FZero, sh.total)
              /\ sh.outColor.defined
              /\ ~FLess(sh.outColor.val, sh.lo)
              /\ ~FLess(sh.hi, sh.outColor.val)

(***************************************************************************)
(* Properties of the asset cache.                                          *)
(***************************************************************************)
\* C24: a request for a name whose most recently returned asset is still
\* held by some component returns that asset and loads nothing; a request
\* for a name that was never returned, whose asset no component holds any
\* more, or whose last load failed, performs a load and returns a new asset
\* or nothing; and the assets alive are exactly those components hold.
C24_WeakCache ==
    rm # NoRun =>
        /\ rm.live = {id \in AssetIds :
                         \E ks \in Kinds \X Slots : rm.held[ks[1]][ks[2]] = id}
        /\ rm.last.kind # "none" =>
              /\ rm.last.prevHeld =>
                    (rm.last.ret = rm.last.prev /\ ~rm.last.loaded)
              /\ ~rm.last.prevHeld =>
                    /\ rm.last.loaded
                    /\ rm.last.ret \in {0, rm.loads}
                    /\ rm.last.ret # rm.last.prev \/ rm.last.prev = 0

\* a mesh whose earlier instance every component released has just been
\* loaded again, while one shader is shared by two components
C24_Witness ==
    /\ rm # NoRun
    /\ rm.last.kind = "mesh"
    /\ rm.last.prev # 0 /\ ~rm.last.prevHeld
    /\ rm.last.loaded /\ rm.last.ret # 0 /\ rm.last.ret # rm.last.prev
    /\ rm.last.prev \notin rm.live
    /\ \E s1 \in Slots, s2 \in Slots :
          /\ s1 # s2
          /\ rm.held["shader"][s1] # 0
          /\ rm.held["shader"][s1] = rm.held["shader"][s2]

(***************************************************************************)
(* Properties of the working directory search.                             *)
(***************************************************************************)
\* C27: the search examines at most 4 levels, the starting directory and up
\* to 3 ancestors; when it has ended, the working directory is the data
\* directory of the nearest of those levels that holds a directory
\* "foxengine_data", and if none of them does, the call has returned with
\* the working directory it started with.
C27_RedirectOrRestore ==
    wd # NoRun =>
        LET start == wd.stored[2]
            levels == {d \in Depths : d <= start /\ start - d < SearchLevels}
            withDir == {d \in levels : wd.entry[d] = "dir"}
        IN /\ wd.examined \subseteq levels
           /\ wd.status # "searching" =>
                 IF withDir # {}
                 THEN /\ wd.status = "returned"
                      /\ wd.cwd = <<"data", CHOOSE d \in withDir :
                                               \A e \in withDir : e <= d>>
                 ELSE /\ wd.status = "returned"
                      /\ wd.cwd = wd.stored

====
